---- MODULE Spec2Model ----
(***************************************************************************)
(* Avans keuze kompas: the frontend's AuthManager / ApiClient / VKMFactory *)
(* and the backend's auth endpoints they talk to, as a state machine.      *)
(*                                                                         *)
(* Time is counted in minutes.  JavaScript runs one callback at a time, so *)
(* every action is one synchronous run of a handler (a public method, the  *)
(* continuation after an await, a timer callback).                         *)
(***************************************************************************)
EXTENDS Integers, Sequences, FiniteSets, TLC

\* ------------------------------------------------------------------ bounds
MaxTime == 2
ShortExp == 1

MaxPad == 1
MaxBuilt == 2
MaxVkm == 2
MaxItems == 1

\* ------------------------------------------------------- program constants
NameMax == 255
DescMax == 500
CreditMax == 60
TOKEN_REFRESH_THRESHOLD == 5
SessionAssumedExpiry == 24 * 60
JwtExpiresIn == 24 * 60

\* ------------------------------------------------------------------ values
Null == [kind |-> "null"]
Opaque == [kind |-> "opaque"]
Users == {"u1", "u2"}
Email(u) == IF u = "u1" THEN "u1@avans.nl" ELSE "u2@avans.nl"
IsAdmin(u) == u = "u2"

\* A JWT: its payload and whether the backend's secret signed it.
Jwt(u, iat, exp, signed) ==
  [kind |-> "jwt", username |-> Email(u), sub |-> u, is_admin |-> IsAdmin(u),
   exp |-> exp, iat |-> iat, signed |-> signed]

\* Tokens a caller hands to setToken(): an undecodable string, and JWTs that
\* expire soon or just beyond the refresh threshold.
ExtExps == {ShortExp, TOKEN_REFRESH_THRESHOLD + ShortExp}
SetTokenInputs == {Opaque} \cup {Jwt("u2", 0, e, FALSE) : e \in ExtExps}

\* Tokens for the refresh schedule: also one that expires exactly at the
\* threshold and one of a backend whose JWT_EXPIRATION is 30 days.
FarExp == 30 * 24 * 60
RefreshInputs ==
  SetTokenInputs \cup {Jwt("u1", 0, e, TRUE) : e \in {TOKEN_REFRESH_THRESHOLD, FarExp}}

Listeners == {"hook", "a", "b"}

Range(s) == {s[i] : i \in 1..Len(s)}
SelectSeqNe(s, x) == SelectSeq(s, LAMBDA y : y # x)

VARIABLES
  now,                 \* Date.now(), in minutes
  token,               \* AuthManager.token
  decodedToken,        \* AuthManager.decodedToken
  refreshTimer,        \* AuthManager.refreshTimer (0 = null)
  authStateListeners,  \* AuthManager.authStateListeners
  timers,              \* pending setTimeout callbacks {[id, due]}
  hook,                \* useAuth: phase and React state
  round,               \* listener invocations made by the last action
  cookies,             \* browser cookie jar for the access_token cookie
  meReq,               \* GET /auth/me of initializeSession
  loginReq,            \* POST /auth/login
  logoutReq,           \* POST /auth/logout
  refreshReq,          \* POST /auth/refresh
  getTokenFn,          \* ApiClient.getTokenFn
  api,                 \* ApiClient.request in flight / settled
  vkm,                 \* VKMFactory: last input and result
  last,                \* the last operation and what it returned
  server,              \* backend process: environment, state, configuration
  db,                  \* backend collections: users and VKM
  http,                \* backend: the last request served and its response
  instances,           \* frontend singletons: static instance fields
  issued,              \* per user, the access token a client holds
  loggedOut,           \* the caller called logout() and not login()/setToken() since
  useItems             \* useItems: React state and the API calls it awaits

vars == <<now, token, decodedToken, refreshTimer, authStateListeners, timers,
          hook, round, cookies, meReq, loginReq, logoutReq, refreshReq,
          getTokenFn, api, vkm, last, server, db, http, instances, issued,
          loggedOut, useItems>>

\* ------------------------------------------------------------ AuthManager
\* The synchronous heap the AuthManager methods read and write.
Heap ==
  [token |-> token, decodedToken |-> decodedToken, refreshTimer |-> refreshTimer,
   authStateListeners |-> authStateListeners, timers |-> timers, hook |-> hook,
   round |-> <<>>]

Commit(h) ==
  /\ token' = h.token
  /\ decodedToken' = h.decodedToken
  /\ refreshTimer' = h.refreshTimer
  /\ authStateListeners' = h.authStateListeners
  /\ timers' = h.timers
  /\ hook' = h.hook
  /\ round' = h.round

decodeToken(t) ==
  IF t.kind = "jwt"
  THEN [kind |-> "payload", username |-> t.username, sub |-> t.sub,
        is_admin |-> t.is_admin, exp |-> t.exp, iat |-> t.iat]
  ELSE Null

isTokenExpired(decoded, t) == decoded.exp < t

isAuthenticated(h) == h.decodedToken # Null

getAuthState(h) ==
  [isAuthenticated |-> isAuthenticated(h), token |-> h.token,
   user |-> h.decodedToken]

\* The closure subscribe() returns.
unsubscribe(ls, l) == SelectSeqNe(ls, l)

\* Faulty variant: the listener forgets the user.
HookListenerNoUser(hk, st) ==
  IF hk.phase = "subscribed"
  THEN [hk EXCEPT !.token = st.token, !.isLoggedIn = st.isAuthenticated]
  ELSE hk

\* The useAuth listener: copy the state into React state.
HookListener(hk, st) ==
  IF hk.phase = "subscribed"
  THEN [hk EXCEPT !.token = st.token, !.user = st.user,
                  !.isLoggedIn = st.isAuthenticated]
  ELSE hk

\* for (const listener of this.authStateListeners) listener(state): the loop
\* walks the array it started on (snap); a listener that unsubscribes another
\* replaces this.authStateListeners (h.authStateListeners) with a filtered copy.
\* Listener "a" calls b's unsubscribe when kill is TRUE.
RECURSIVE NotifyLoop(_, _, _, _, _)
NotifyLoop(snap, i, h, st, kill) ==
  IF i > Len(snap) THEN h
  ELSE LET l == snap[i]
           ev == [l |-> l, state |-> st,
                  subscribed |-> l \in Range(h.authStateListeners)]
           h1 == [h EXCEPT !.round = Append(@, ev)]
           h2 == IF l = "hook" THEN [h1 EXCEPT !.hook = HookListener(@, st)]
                 ELSE IF l = "a" /\ kill
                 THEN [h1 EXCEPT !.authStateListeners = unsubscribe(@, "b")]
                 ELSE h1
       IN NotifyLoop(snap, i + 1, h2, st, kill)

notifyAuthStateChange(h, kill) ==
  NotifyLoop(h.authStateListeners, 1, h, getAuthState(h), kill)

clearTimeout(ts, id) == {x \in ts : x.id # id}

\* Faulty variant: the refresh timer is left running.
clearTokenKeepsTimer(h, kill) ==
  notifyAuthStateChange([h EXCEPT !.token = Null, !.decodedToken = Null], kill)

clearToken(h, kill) ==
  LET h1 == [h EXCEPT !.token = Null, !.decodedToken = Null]
      h2 == IF h1.refreshTimer # 0
            THEN [h1 EXCEPT !.timers = clearTimeout(@, h1.refreshTimer),
                            !.refreshTimer = 0]
            ELSE h1
  IN notifyAuthStateChange(h2, kill)

\* A timer handle not in use: handles are only compared for identity.
NewHandle(h) ==
  CHOOSE i \in 1..(Cardinality(h.timers) + 2) :
    /\ i # h.refreshTimer
    /\ \A x \in h.timers : x.id # i
    /\ \A j \in 1..(i - 1) : j = h.refreshTimer \/ \E x \in h.timers : x.id = j

\* setTimeout(fn, delay): the delay is converted to a signed 32-bit number of
\* milliseconds; a delay of 2^31 ms (TimerWrap / 2 minutes) or more wraps to
\* a negative one and the callback is due at once.
TimerWrap == 71582
setTimeoutDelay(delay) ==
  LET w == delay % TimerWrap
  IN IF w >= TimerWrap \div 2 THEN 0 ELSE w

setupTokenRefresh(h, t) ==
  IF h.decodedToken = Null THEN h
  ELSE LET h1 == IF h.refreshTimer # 0
                 THEN [h EXCEPT !.timers = clearTimeout(@, h.refreshTimer)]
                 ELSE h
           timeUntilRefresh == h1.decodedToken.exp - t - TOKEN_REFRESH_THRESHOLD
           id == NewHandle(h1)
       IN IF timeUntilRefresh > 0
          THEN [h1 EXCEPT !.timers = @ \cup {[id |-> id,
                                               due |-> t + setTimeoutDelay(timeUntilRefresh)]},
                          !.refreshTimer = id]
          ELSE h1

\* Faulty variant: an accepted token is stored without telling the listeners.
setTokenSilently(h, tok, t, kill) ==
  LET h1 == [h EXCEPT !.token = tok, !.decodedToken = decodeToken(tok)]
  IN IF h1.decodedToken # Null /\ isTokenExpired(h1.decodedToken, t)
     THEN clearToken(h1, kill)
     ELSE setupTokenRefresh(h1, t)

setToken(h, tok, t, kill) ==
  LET h1 == [h EXCEPT !.token = tok, !.decodedToken = decodeToken(tok)]
  IN IF h1.decodedToken # Null /\ isTokenExpired(h1.decodedToken, t)
     THEN clearToken(h1, kill)
     ELSE setupTokenRefresh(notifyAuthStateChange(h1, kill), t)

\* getToken(): the heap after the call and the value returned.
getToken(h, t, kill) ==
  IF h.token # Null /\ h.decodedToken # Null /\ isTokenExpired(h.decodedToken, t)
  THEN [heap |-> clearToken(h, kill), ret |-> Null]
  ELSE [heap |-> h, ret |-> h.token]

\* ------------------------------------------------- browser and backend
ParentDomain == "parent"   \* Domain=.panel.evonix-development.tech
HostOnly == "host"         \* no Domain attribute: the backend host only

\* The browser stores a Set-Cookie under (name, domain, path); an expired one
\* deletes the cookie stored under the same key.
StoreCookie(jar, c) ==
  LET rest == {x \in jar : x.domain # c.domain}
  IN IF c.expired THEN rest ELSE rest \cup {[domain |-> c.domain, value |-> c.value]}

\* res.cookie('access_token', token, {domain: '.panel.evonix-development.tech', ...})
LoginSetCookie(tok) == [domain |-> ParentDomain, value |-> tok, expired |-> FALSE]
\* res.clearCookie('access_token')
LogoutSetCookie == [domain |-> HostOnly, value |-> Null, expired |-> TRUE]

\* The access_token the browser sends to the backend host with credentials.
CookieSent(jar) ==
  IF jar = {} THEN Null ELSE (CHOOSE x \in jar : TRUE).value

\* passport-jwt with ignoreExpiration: false.
JwtGuardAccepts(tok, t) == tok.kind = "jwt" /\ tok.signed /\ t < tok.exp

\* AuthService.login
SignToken(u, t) == Jwt(u, t, t + JwtExpiresIn, TRUE)

\* JwtStrategy.validate + AuthController.getProfile
Profile(tok) == [userId |-> tok.sub, email |-> tok.username, is_admin |-> tok.is_admin]

NoReq == [st |-> "none"]
\* useItems after its first render and effect: getItems() is awaited.
UseItemsInit ==
  [items |-> <<>>, loading |-> TRUE, reqs |-> {[kind |-> "get"]}, next |-> 3]
HookInit == [phase |-> "unmounted", token |-> Null, user |-> Null, isLoggedIn |-> FALSE]
ApiIdle == [pc |-> "idle"]
VkmIdle == [op |-> "none"]

\* A page load: module state is fresh, the constructor of the AuthManager
\* singleton sends GET /auth/me with the cookies the browser holds.
FreshPage(jar) ==
  /\ token' = Null
  /\ decodedToken' = Null
  /\ refreshTimer' = 0
  /\ authStateListeners' = <<>>
  /\ timers' = {}
  /\ hook' = HookInit
  /\ round' = <<>>
  /\ meReq' = [st |-> "sent", cookie |-> CookieSent(jar)]
  /\ loginReq' = NoReq
  /\ logoutReq' = NoReq
  /\ refreshReq' = NoReq
  /\ getTokenFn' = "none"

InitPage ==
  /\ loggedOut = FALSE
  /\ useItems = UseItemsInit
  /\ now = 0
  /\ token = Null
  /\ decodedToken = Null
  /\ refreshTimer = 0
  /\ authStateListeners = <<>>
  /\ timers = {}
  /\ hook = HookInit
  /\ round = <<>>
  /\ cookies \in {{}, {[domain |-> ParentDomain, value |-> SignToken("u1", 0)]}}
  /\ meReq = [st |-> "sent", cookie |-> CookieSent(cookies)]
  /\ loginReq = NoReq
  /\ logoutReq = NoReq
  /\ refreshReq = NoReq
  /\ getTokenFn = "none"
  /\ api = ApiIdle
  /\ last = [op |-> "construct"]

\* The backend not started and no frontend singleton asked for.
ServerDown == [st |-> "down"]
NoHttp == [op |-> "none"]
\* The static instance fields (0: undefined, else the identity of the
\* instance), how many instances of each class were constructed, how many
\* times initializeSession ran, and whether window is defined.
Classes == {"ConfigManager", "ApiClient", "AuthManager"}
NoInstances(window) ==
  [op |-> "none", window |-> window, instance |-> [c \in Classes |-> 0],
   built |-> [c \in Classes |-> 0], sessions |-> 0]
\* After api.ts was evaluated in the browser: getApiClient(), getAuthManager().
Loaded ==
  [op |-> "none", window |-> TRUE, instance |-> [c \in Classes |-> 1],
   built |-> [c \in Classes |-> 1], sessions |-> 1]
NoneIssued == [u \in Users |-> Null]
InitBackendIdle ==
  /\ server = ServerDown
  /\ db = [users |-> {}, vkm |-> {}]
  /\ http = NoHttp
  /\ instances = Loaded
  /\ issued = NoneIssued

Init == InitPage /\ vkm = VkmIdle /\ InitBackendIdle

\* ---------------------------------------------------------------- actions
BackendIdle == UNCHANGED <<server, db, http, instances, issued>>

CallerIdle == UNCHANGED loggedOut

AuthIdle == UNCHANGED <<api, vkm, useItems>> /\ BackendIdle /\ CallerIdle

\* Continuation of initializeSession after GET /auth/me settles.
InitializeSessionResponse(net, kill) ==
  /\ meReq.st = "sent"
  /\ meReq' = NoReq
  /\ LET ok == net /\ meReq.cookie # Null /\ JwtGuardAccepts(meReq.cookie, now)
         data == Profile(meReq.cookie)
         h1 == [Heap EXCEPT !.decodedToken =
                  [kind |-> "payload", username |-> data.email, sub |-> data.userId,
                   is_admin |-> data.is_admin, exp |-> now + SessionAssumedExpiry,
                   iat |-> now]]
     IN /\ Commit(IF ok THEN notifyAuthStateChange(h1, kill) ELSE Heap)
        /\ last' = [op |-> "sessionResponse", ok |-> ok]
  /\ UNCHANGED <<now, cookies, loginReq, logoutReq, refreshReq, getTokenFn>>
  /\ AuthIdle

\* login(email, password) up to the await of fetch; viaHook: called through
\* the login function useAuth returns.
Login(good, viaHook) ==
  /\ loginReq = NoReq
  /\ viaHook => hook.phase # "unmounted"
  /\ loginReq' = [st |-> "sent", good |-> good, viaHook |-> viaHook]
  /\ last' = [op |-> "login"]
  /\ Commit(Heap)
  /\ UNCHANGED <<now, cookies, meReq, logoutReq, refreshReq, getTokenFn>>
  /\ UNCHANGED <<api, vkm, useItems>> /\ BackendIdle
  /\ loggedOut' = FALSE

\* useAuth.login after authManager.login resolved.
HookAfterLogin(h) ==
  IF h.hook.phase # "unmounted"
  THEN LET st == getAuthState(h)
       IN [h EXCEPT !.hook.token = st.token, !.hook.user = st.user,
                    !.hook.isLoggedIn = st.isAuthenticated]
  ELSE h

\* POST /auth/login answered: AuthController.login signs a token and sets the
\* cookie; login() calls setToken with data.access_token.
LoginResponse(net, kill) ==
  /\ loginReq.st = "sent"
  /\ loginReq' = NoReq
  /\ LET ok == net /\ loginReq.good
         tok == SignToken("u1", now)
         h1 == setToken(Heap, tok, now, kill)
     IN /\ cookies' = IF ok THEN StoreCookie(cookies, LoginSetCookie(tok)) ELSE cookies
        /\ Commit(IF ok THEN (IF loginReq.viaHook THEN HookAfterLogin(h1) ELSE h1)
                  ELSE Heap)
        /\ last' = [op |-> "loginResponse", ok |-> ok]
  /\ UNCHANGED <<now, meReq, logoutReq, refreshReq, getTokenFn>>
  /\ AuthIdle

SetTokenCall(tok, kill) ==
  /\ Commit(setToken(Heap, tok, now, kill))
  /\ last' = [op |-> "setToken", tok |-> tok]
  /\ UNCHANGED <<now, cookies, meReq, loginReq, logoutReq, refreshReq, getTokenFn>>
  /\ UNCHANGED <<api, vkm, useItems>> /\ BackendIdle
  /\ loggedOut' = FALSE

GetTokenCall(kill) ==
  /\ LET r == getToken(Heap, now, kill)
     IN /\ Commit(r.heap)
        /\ last' = [op |-> "getToken", ret |-> r.ret, at |-> now,
                    held |-> token, cleared |-> r.ret # token]
  /\ UNCHANGED <<now, cookies, meReq, loginReq, logoutReq, refreshReq, getTokenFn>>
  /\ AuthIdle

ClearTokenCall(kill) ==
  /\ Commit(clearToken(Heap, kill))
  /\ last' = [op |-> "clearToken"]
  /\ UNCHANGED <<now, cookies, meReq, loginReq, logoutReq, refreshReq, getTokenFn>>
  /\ AuthIdle

\* logout() up to the await of fetch.
\* Faulty variant: logout only calls the endpoint.
logoutRequestOnly(h, kill) == h

logout(h, kill) == clearToken(h, kill)

Logout(kill) ==
  /\ Commit(logout(Heap, kill))
  /\ logoutReq' = [st |-> "sent"]
  /\ last' = [op |-> "logout", hadTimer |-> timers # {},
              wasAuthenticated |-> isAuthenticated(Heap)]
  /\ UNCHANGED <<now, cookies, meReq, loginReq, refreshReq, getTokenFn>>
  /\ UNCHANGED <<api, vkm, useItems>> /\ BackendIdle
  /\ loggedOut' = TRUE

\* POST /auth/logout answered (AuthController.logout) or failed.
LogoutResponse(net) ==
  /\ logoutReq.st = "sent"
  /\ logoutReq' = NoReq
  /\ cookies' = IF net THEN StoreCookie(cookies, LogoutSetCookie) ELSE cookies
  /\ last' = [op |-> "logoutResponse", ok |-> net]
  /\ Commit(Heap)
  /\ UNCHANGED <<now, meReq, loginReq, refreshReq, getTokenFn>>
  /\ AuthIdle

\* The setTimeout callback of setupTokenRefresh: refreshToken() up to the await.
RefreshTimerFire ==
  /\ refreshReq = NoReq
  /\ \E x \in timers :
       /\ x.due <= now
       /\ Commit([Heap EXCEPT !.timers = @ \ {x}])
  /\ refreshReq' = [st |-> "sent"]
  /\ last' = [op |-> "refreshFire"]
  /\ UNCHANGED <<now, cookies, meReq, loginReq, logoutReq, getTokenFn>>
  /\ AuthIdle

\* refreshToken() after POST /auth/refresh settles.
RefreshResponse(outcome, kill) ==
  /\ refreshReq.st = "sent"
  /\ refreshReq' = NoReq
  /\ last' = [op |-> "refreshResponse", outcome |-> outcome]
  /\ \/ /\ outcome = "token"
        /\ Commit(setToken(Heap, SignToken("u1", now), now, kill))
        /\ UNCHANGED logoutReq
     \/ /\ outcome = "empty"
        /\ Commit(Heap)
        /\ UNCHANGED logoutReq
     \/ /\ outcome \in {"fail", "throw"}
        /\ Commit(logout(Heap, kill))
        /\ logoutReq' = [st |-> "sent"]
  /\ UNCHANGED <<now, cookies, meReq, loginReq, getTokenFn>>
  /\ AuthIdle

subscribe(h, l) == [h EXCEPT !.authStateListeners = Append(@, l)]

Subscribe(l) ==
  /\ l \in {"a", "b"}
  /\ l \notin Range(authStateListeners)
  /\ Commit(subscribe(Heap, l))
  /\ last' = [op |-> "subscribe", l |-> l]
  /\ UNCHANGED <<now, cookies, meReq, loginReq, logoutReq, refreshReq, getTokenFn>>
  /\ AuthIdle

Unsubscribe(l) ==
  /\ l \in {"a", "b"}
  /\ l \in Range(authStateListeners)
  /\ Commit([Heap EXCEPT !.authStateListeners = unsubscribe(@, l)])
  /\ last' = [op |-> "unsubscribe", l |-> l]
  /\ UNCHANGED <<now, cookies, meReq, loginReq, logoutReq, refreshReq, getTokenFn>>
  /\ AuthIdle

\* useAuth: first render (useState initial values).
HookRender ==
  /\ hook.phase = "unmounted"
  /\ Commit([Heap EXCEPT !.hook = [HookInit EXCEPT !.phase = "rendered"]])
  /\ last' = [op |-> "hookRender"]
  /\ UNCHANGED <<now, cookies, meReq, loginReq, logoutReq, refreshReq, getTokenFn>>
  /\ AuthIdle

\* useAuth: the subscription effect.
useAuthEffect(h) ==
  LET st == getAuthState(h)
      h1 == [h EXCEPT !.hook = [phase |-> "subscribed", token |-> st.token,
                                user |-> st.user, isLoggedIn |-> st.isAuthenticated]]
  IN subscribe(h1, "hook")

HookEffect ==
  /\ hook.phase = "rendered"
  /\ Commit(useAuthEffect(Heap))
  /\ last' = [op |-> "hookEffect"]
  /\ UNCHANGED <<now, cookies, meReq, loginReq, logoutReq, refreshReq, getTokenFn>>
  /\ AuthIdle

\* useAuth: the effect's cleanup on unmount; React drops the component state.
useAuthCleanup(h) ==
  [h EXCEPT !.authStateListeners = unsubscribe(@, "hook"), !.hook = HookInit]

HookUnmount ==
  /\ hook.phase = "subscribed"
  /\ Commit(useAuthCleanup(Heap))
  /\ last' = [op |-> "hookUnmount"]
  /\ UNCHANGED <<now, cookies, meReq, loginReq, logoutReq, refreshReq, getTokenFn>>
  /\ AuthIdle

PageLoad ==
  /\ FreshPage(cookies)
  /\ last' = [op |-> "pageLoad"]
  /\ UNCHANGED <<now, cookies>>
  /\ UNCHANGED <<api, vkm, useItems>> /\ BackendIdle
  /\ loggedOut' = FALSE

\* ------------------------------------------------------------- ApiClient
\* api.ts: apiClient.setTokenGetter(() => authManager.getToken())
SetTokenGetter ==
  /\ getTokenFn = "none"
  /\ getTokenFn' = "authManager"
  /\ last' = [op |-> "setTokenGetter"]
  /\ Commit(Heap)
  /\ UNCHANGED <<now, cookies, meReq, loginReq, logoutReq, refreshReq>>
  /\ AuthIdle

NotCalled == [kind |-> "notcalled"]
Bearer(tok) == [kind |-> "bearer", token |-> tok]
CallerHeader == [kind |-> "caller"]

\* Faulty variant: the header is built without asking for the token.
getAuthHeadersNoToken(h, fn, t, kill) == [heap |-> h, getter |-> NotCalled, auth |-> Null]

\* getAuthHeaders(): the heap after the call, what the getter returned and the
\* Authorization header it contributes (Null: none).
getAuthHeaders(h, fn, t, kill) ==
  IF fn = "none" THEN [heap |-> h, getter |-> NotCalled, auth |-> Null]
  ELSE LET r == getToken(h, t, kill)
       IN [heap |-> r.heap, getter |-> r.ret,
           auth |-> IF r.ret # Null THEN Bearer(r.ret) ELSE Null]

\* buildHeaders(options, includeAuth): options.headers may carry the caller's
\* own Authorization header (callerAuth); requiresAuth is "undefined", "true"
\* or "false".
buildHeaders(h, fn, t, kill, requiresAuth, callerAuth, includeAuth) ==
  LET own == IF callerAuth THEN CallerHeader ELSE Null
  IN IF includeAuth /\ requiresAuth # "false"
     THEN LET a == getAuthHeaders(h, fn, t, kill)
          IN [heap |-> a.heap, getter |-> a.getter,
              auth |-> IF a.auth # Null THEN a.auth ELSE own]
     ELSE [heap |-> h, getter |-> NotCalled, auth |-> own]

\* request(): the synchronous part, up to the call of fetch.
RequestHeaders(requiresAuth, callerAuth, kill) ==
  LET b == buildHeaders(Heap, getTokenFn, now, kill, requiresAuth, callerAuth,
                        requiresAuth # "false")
  IN /\ Commit(b.heap)
     /\ last' = [op |-> "request", requiresAuth |-> requiresAuth,
                 callerAuth |-> callerAuth, wired |-> getTokenFn # "none",
                 getter |-> b.getter, authorization |-> b.auth, at |-> now]

Methods == {"GET", "POST", "PUT", "DELETE", "PATCH"}

\* request(), called by get/post/put/delete/patch, up to the await of fetch.
ApiRequest(method, requiresAuth, callerAuth, kill) ==
  /\ api.pc # "fetching"
  /\ RequestHeaders(requiresAuth, callerAuth, kill)
  /\ api' = [pc |-> "fetching", method |-> method]
  /\ UNCHANGED <<now, cookies, meReq, loginReq, logoutReq, refreshReq, getTokenFn, vkm, useItems>>
  /\ BackendIdle /\ CallerIdle

\* What fetch resolves with: a status and a body that is JSON, other text or
\* empty.  Reading a body marks it used; a used body cannot be read again.
Statuses == {200, 204, 401, 404, 500}
Bodies == {"json", "text", "empty"}
Response(status, body) == [status |-> status, body |-> body, bodyUsed |-> FALSE]
ResponseOk(r) == r.status >= 200 /\ r.status <= 299

\* response.json(): the response afterwards and the value or the exception.
ReadJson(r) ==
  IF r.bodyUsed THEN [r |-> r, ok |-> FALSE, value |-> "TypeError"]
  ELSE [r |-> [r EXCEPT !.bodyUsed = TRUE], ok |-> r.body = "json",
        value |-> IF r.body = "json" THEN "json" ELSE "SyntaxError"]

\* response.text()
ReadText(r) ==
  IF r.bodyUsed THEN [r |-> r, ok |-> FALSE, value |-> "TypeError"]
  ELSE [r |-> [r EXCEPT !.bodyUsed = TRUE], ok |-> TRUE, value |-> r.body]

Resolved(v) == [kind |-> "resolved", value |-> v]
Thrown(e) == [kind |-> "rejected", error |-> e]
ApiError(message, status, details) ==
  [message |-> message, status |-> status, details |-> details]
Truthy(x) == x # 0

\* handleError(response): what it throws.
handleError(r) ==
  LET j == ReadJson(r)
      t == ReadText(j.r)
  IN IF j.ok THEN Thrown(ApiError("API request failed", r.status, j.value))
     ELSE IF t.ok THEN Thrown(ApiError("API request failed", r.status, t.value))
     ELSE Thrown([name |-> t.value])

\* The catch block of request().
requestCatch(e) ==
  IF "status" \in DOMAIN e /\ Truthy(e.status) THEN Thrown(e)
  ELSE Thrown(ApiError("Network error or server unavailable", 0, e))

\* request() after fetch resolved with r.
requestSettle(r) ==
  IF ~ResponseOk(r) THEN requestCatch(handleError(r).error)
  ELSE IF r.status = 204 THEN Resolved("{}")
  ELSE LET j == ReadJson(r)
       IN IF j.ok THEN Resolved(j.value) ELSE requestCatch([name |-> j.value])

FetchResolves(status, body) ==
  /\ api.pc = "fetching"
  /\ api' = [pc |-> "settled", fetched |-> TRUE, status |-> status, body |-> body,
             outcome |-> requestSettle(Response(status, body))]
  /\ last' = [op |-> "response"]
  /\ Commit(Heap)
  /\ UNCHANGED <<now, cookies, meReq, loginReq, logoutReq, refreshReq, getTokenFn, vkm, useItems>>
  /\ BackendIdle /\ CallerIdle

\* fetch itself rejects (network down, CORS, DNS).
FetchRejects ==
  /\ api.pc = "fetching"
  /\ api' = [pc |-> "settled", fetched |-> FALSE, status |-> 0, body |-> "empty",
             outcome |-> requestCatch([name |-> "TypeError"])]
  /\ last' = [op |-> "response"]
  /\ Commit(Heap)
  /\ UNCHANGED <<now, cookies, meReq, loginReq, logoutReq, refreshReq, getTokenFn, vkm, useItems>>
  /\ BackendIdle /\ CallerIdle

\* ------------------------------------------------------------ VKMFactory
\* A JavaScript string, by what trim() and length see of it: lead and trail
\* whitespace characters around core characters that begin and end with a
\* non-whitespace one (a blank string is all lead).  Undefined: a value that
\* is not a string.
Str(lead, core, trail) == [kind |-> "str", lead |-> lead, core |-> core, trail |-> trail]
Undefined == [kind |-> "undefined"]
EmptyStr == Str(0, 0, 0)
Length(v) == v.lead + v.core + v.trail
Trim(v) == Str(0, v.core, 0)
IsString(v) == v.kind = "str"
Falsy(v) == v.kind = "undefined" \/ (IsString(v) /\ Length(v) = 0)

\* A JavaScript number: an integer or NaN; comparisons with NaN are false.
Num(n) == [nan |-> FALSE, v |-> n]
NaN == [nan |-> TRUE, v |-> 0]
JsLt(x, n) == ~x.nan /\ x.v < n
JsGt(x, n) == ~x.nan /\ x.v > n

Cores == {1, NameMax, NameMax + 1, DescMax, DescMax + 1}
Strings ==
  {Str(l, c, t) : l \in 0..MaxPad, c \in Cores, t \in 0..MaxPad}
    \cup {Str(l, 0, 0) : l \in 0..MaxPad}
Values == Strings \cup {Undefined}
Credits == {NaN} \cup {Num(n) : n \in {0 - 1, 0, 30, CreditMax, CreditMax + 1}}

\* Faulty variant: the value is returned untrimmed.
sanitizeStringNoTrim(value) == IF ~IsString(value) THEN EmptyStr ELSE value

sanitizeString(value) == IF ~IsString(value) THEN EmptyStr ELSE Trim(value)

createNew(name, description, t) ==
  [id |-> t, name |-> sanitizeString(name),
   shortdescription |-> sanitizeString(description), content |-> EmptyStr,
   studycredit |-> Num(0), location |-> EmptyStr, contact_id |-> 0,
   level |-> EmptyStr]

validate(v) ==
  (IF Falsy(v.name) \/ Length(Trim(v.name)) = 0
   THEN <<"Name is required">> ELSE <<>>)
  \o (IF ~Falsy(v.name) /\ Length(v.name) > NameMax
      THEN <<"Name must be less than 255 characters">> ELSE <<>>)
  \o (IF Falsy(v.shortdescription) \/ Length(Trim(v.shortdescription)) = 0
      THEN <<"Short description is required">> ELSE <<>>)
  \o (IF ~Falsy(v.shortdescription) /\ Length(v.shortdescription) > DescMax
      THEN <<"Short description must be less than 500 characters">> ELSE <<>>)
  \o (IF JsLt(v.studycredit, 0)
      THEN <<"Study credit cannot be negative">> ELSE <<>>)
  \o (IF JsGt(v.studycredit, CreditMax)
      THEN <<"Study credit cannot exceed 60 ECTS">> ELSE <<>>)

isValid(v) == Len(validate(v)) = 0

VkmIdleRest ==
  /\ Commit(Heap)
  /\ UNCHANGED <<now, cookies, meReq, loginReq, logoutReq, refreshReq, getTokenFn, api,
                 useItems>>
  /\ BackendIdle /\ CallerIdle

\* The arguments a caller is about to hand to the factory.
VkmInputs == [op : {"input"}, name : Values, description : Values, credit : Credits]

InitVkm == InitPage /\ vkm \in VkmInputs /\ InitBackendIdle

\* VKMFactory.validate / isValid on a VKMInput a caller built.
Validate ==
  /\ vkm.op = "input"
  /\ LET v == [id |-> 0, name |-> vkm.name, shortdescription |-> vkm.description,
               content |-> EmptyStr, studycredit |-> vkm.credit,
               location |-> EmptyStr, contact_id |-> 0, level |-> EmptyStr]
     IN vkm' = [op |-> "validate", input |-> v, errors |-> validate(v),
                valid |-> isValid(v)]
  /\ last' = [op |-> "validate"]
  /\ VkmIdleRest

\* VKMFactory.createNew, then validate / isValid on what it returned.
CreateNew ==
  /\ vkm.op = "input"
  /\ LET v == createNew(vkm.name, vkm.description, now)
     IN vkm' = [op |-> "createNew", name |-> vkm.name,
                description |-> vkm.description, out |-> v,
                errors |-> validate(v), valid |-> isValid(v)]
  /\ last' = [op |-> "createNew"]
  /\ VkmIdleRest

\* ------------------------------------------- VKMFactory: the other factories
\* A truthy value that is not a string (an object, a non-zero number).
Obj == [kind |-> "object"]
\* a || b on string fields, a || b on number fields, a ?? b.
OrStr(x, d) == IF Falsy(x) THEN d ELSE x
FalsyNum(x) == x = Undefined \/ x.nan \/ x.v = 0
OrNum(x, d) == IF FalsyNum(x) THEN d ELSE x
Coalesce(x, d) == IF x = Undefined THEN d ELSE x

\* Number(value)
ToNumber(value) == IF value = Undefined \/ value = Obj THEN NaN ELSE value

\* Faulty variant: the value is converted but not clamped.
validateStudyCreditNoClamp(value) ==
  LET num == ToNumber(value)
  IN IF num.nan THEN Num(0) ELSE num

validateStudyCredit(value) ==
  LET num == ToNumber(value)
  IN IF num.nan THEN Num(0)
     ELSE IF num.v < 0 THEN Num(0)
     ELSE IF num.v > CreditMax THEN Num(CreditMax)
     ELSE num

createEmpty ==
  [id |-> Num(0), name |-> EmptyStr, shortdescription |-> EmptyStr,
   content |-> EmptyStr, studycredit |-> Num(0), location |-> EmptyStr,
   contact_id |-> Num(0), level |-> EmptyStr]

createComplete(data, t) ==
  [id |-> Num(t),
   name |-> sanitizeString(data.name),
   shortdescription |-> sanitizeString(data.shortdescription),
   content |-> sanitizeString(OrStr(data.content, EmptyStr)),
   studycredit |-> validateStudyCredit(OrNum(data.studycredit, Num(0))),
   location |-> sanitizeString(OrStr(data.location, EmptyStr)),
   contact_id |-> OrNum(data.contact_id, Num(0)),
   level |-> sanitizeString(OrStr(data.level, EmptyStr))]

\* Faulty variant: || in place of ??.
createFromExistingOr(e, updates) ==
  [id |-> OrNum(updates.id, e._id),
   name |-> sanitizeString(OrStr(updates.name, e.name)),
   shortdescription |-> sanitizeString(OrStr(updates.shortdescription, e.shortdescription)),
   content |-> sanitizeString(OrStr(updates.content, e.content)),
   studycredit |-> validateStudyCredit(OrNum(updates.studycredit, e.studycredit)),
   location |-> sanitizeString(OrStr(updates.location, e.location)),
   contact_id |-> OrNum(updates.contact_id, e.contact_id),
   level |-> sanitizeString(OrStr(updates.level, e.level))]

\* createFromExisting(vkm, updates); updates undefined reads as every field
\* undefined (updates?.x).
createFromExisting(e, updates) ==
  [id |-> Coalesce(updates.id, e._id),
   name |-> sanitizeString(Coalesce(updates.name, e.name)),
   shortdescription |-> sanitizeString(Coalesce(updates.shortdescription, e.shortdescription)),
   content |-> sanitizeString(Coalesce(updates.content, e.content)),
   studycredit |-> validateStudyCredit(Coalesce(updates.studycredit, e.studycredit)),
   location |-> sanitizeString(Coalesce(updates.location, e.location)),
   contact_id |-> Coalesce(updates.contact_id, e.contact_id),
   level |-> sanitizeString(Coalesce(updates.level, e.level))]

createPartial(data) ==
  LET defaults == createEmpty
  IN [id |-> Coalesce(data.id, defaults.id),
      name |-> sanitizeString(OrStr(data.name, defaults.name)),
      shortdescription |-> sanitizeString(OrStr(data.shortdescription, defaults.shortdescription)),
      content |-> sanitizeString(OrStr(data.content, defaults.content)),
      studycredit |-> validateStudyCredit(Coalesce(data.studycredit, defaults.studycredit)),
      location |-> sanitizeString(OrStr(data.location, defaults.location)),
      contact_id |-> Coalesce(data.contact_id, defaults.contact_id),
      level |-> sanitizeString(OrStr(data.level, defaults.level))]

update(existing, updates) ==
  [id |-> Coalesce(updates.id, existing.id),
   name |-> sanitizeString(Coalesce(updates.name, existing.name)),
   shortdescription |-> sanitizeString(Coalesce(updates.shortdescription, existing.shortdescription)),
   content |-> sanitizeString(Coalesce(updates.content, existing.content)),
   studycredit |-> validateStudyCredit(Coalesce(updates.studycredit, existing.studycredit)),
   location |-> sanitizeString(Coalesce(updates.location, existing.location)),
   contact_id |-> Coalesce(updates.contact_id, existing.contact_id),
   level |-> sanitizeString(Coalesce(updates.level, existing.level))]

NoUpdates ==
  [id |-> Undefined, name |-> Undefined, shortdescription |-> Undefined,
   content |-> Undefined, studycredit |-> Undefined, location |-> Undefined,
   contact_id |-> Undefined, level |-> Undefined]

toInput(e) == createFromExisting(e, NoUpdates)

\* Values of a Partial<VKMInput>; Undefined is an absent field.
UpdStr == {Undefined, Obj, EmptyStr, Str(MaxPad, 2, MaxPad)}
UpdCredit == {Undefined, NaN, Num(0), Num(0 - 1)}
UpdId == {Undefined, Num(0)}
Updates ==
  [id : UpdId, name : UpdStr, shortdescription : UpdStr, content : UpdStr,
   studycredit : UpdCredit, location : UpdStr, contact_id : UpdId, level : UpdStr]

\* VKMs as the API returned them: one with every field (padded strings, a
\* study credit above the limit), one with only its identifier.
ExistingFull ==
  [_id |-> Str(0, 24, 0), id |-> Num(5), name |-> Str(MaxPad, 1, 0),
   shortdescription |-> Str(0, 1, MaxPad), content |-> Str(MaxPad, 1, MaxPad),
   studycredit |-> Num(CreditMax + 1), location |-> Str(MaxPad, 1, 0),
   contact_id |-> Num(7), level |-> Str(0, 1, 0)]
ExistingSparse ==
  [_id |-> Str(0, 24, 0), id |-> Num(5), name |-> Undefined,
   shortdescription |-> Undefined, content |-> Undefined,
   studycredit |-> Undefined, location |-> Undefined,
   contact_id |-> Undefined, level |-> Undefined]

FactoryInputs == [op : {"args"}, existing : {ExistingFull, ExistingSparse}, updates : Updates]

InitFactory == InitPage /\ cookies = {} /\ vkm \in FactoryInputs /\ InitBackendIdle

\* One factory call on the arguments drawn, recording what it returned.
FactoryCall(op, out) ==
  /\ vkm.op = "args"
  /\ vkm' = [op |-> op, existing |-> vkm.existing, updates |-> vkm.updates, out |-> out]
  /\ last' = [op |-> op]
  /\ VkmIdleRest

CreateNewOf == FactoryCall("createNew", createNew(vkm.updates.name, vkm.updates.shortdescription, now))
CreateComplete == FactoryCall("createComplete", createComplete(vkm.updates, now))
CreateFromExisting == FactoryCall("createFromExisting", createFromExisting(vkm.existing, vkm.updates))
ToInput == FactoryCall("toInput", toInput(vkm.existing))
CreatePartial == FactoryCall("createPartial", createPartial(vkm.updates))
Update == FactoryCall("update", update(vkm.existing, vkm.updates))

Tick ==
  /\ now < MaxTime
  /\ now' = now + 1
  /\ last' = [op |-> "tick"]
  /\ UNCHANGED <<token, decodedToken, refreshTimer, authStateListeners, timers,
                 hook, cookies, meReq, loginReq, logoutReq, refreshReq,
                 getTokenFn, api, vkm, useItems>>
  /\ round' = <<>>
  /\ BackendIdle /\ CallerIdle

\* --------------------------------------------------- backend configuration
\* An environment variable: unset, or a string given by its text and length.
Unset == [set |-> FALSE]
EnvStr(val, len) == [set |-> TRUE, val |-> val, len |-> len]
JwtSecretMin == 32
UriTexts == {"https://n8n.example/webhook"}
NumberTexts == {"4000"}
NodeEnvs == {"development", "production", "test"}

EnvPort == {Unset, EnvStr("4000", 4), EnvStr("abc", 3)}
EnvNodeEnv ==
  {Unset, EnvStr("", 0), EnvStr("development", 11), EnvStr("production", 10),
   EnvStr("test", 4), EnvStr("staging", 7)}
EnvDatabaseUrl == {Unset, EnvStr("", 0), EnvStr("mongodb://db/VKM", 16)}
EnvJwtSecret ==
  {Unset, EnvStr("", 0), EnvStr("secret31", JwtSecretMin - 1),
   EnvStr("secret32", JwtSecretMin)}
EnvJwtExpiration == {Unset, EnvStr("", 0), EnvStr("1d", 2), EnvStr("1m", 2)}
EnvCorsOrigin == {Unset, EnvStr("", 0), EnvStr("https://app.example", 19)}
EnvWebhookUrl ==
  {Unset, EnvStr("", 0), EnvStr("not a url", 9),
   EnvStr("https://n8n.example/webhook", 27)}
Environments ==
  [PORT : EnvPort, NODE_ENV : EnvNodeEnv, DATABASE_URL : EnvDatabaseUrl,
   JWT_SECRET : EnvJwtSecret, JWT_EXPIRATION : EnvJwtExpiration,
   CORS_ORIGIN : EnvCorsOrigin, N8N_WEBHOOK_URL : EnvWebhookUrl]

\* Joi rules.  Joi.string() rejects the empty string; an optional key may be
\* absent; required() may not.
JoiString(v) == v.set /\ v.len > 0
JoiOptional(v, rule) == ~v.set \/ rule
JoiRequired(v, rule) == v.set /\ rule

\* Faulty variant: the four keys are optional.
validationSchemaNothingRequired(env) ==
  /\ JoiOptional(env.PORT, env.PORT.val \in NumberTexts)
  /\ JoiOptional(env.NODE_ENV, JoiString(env.NODE_ENV) /\ env.NODE_ENV.val \in NodeEnvs)
  /\ JoiOptional(env.DATABASE_URL, JoiString(env.DATABASE_URL))
  /\ JoiOptional(env.JWT_SECRET,
                 JoiString(env.JWT_SECRET) /\ env.JWT_SECRET.len >= JwtSecretMin)
  /\ JoiOptional(env.JWT_EXPIRATION, JoiString(env.JWT_EXPIRATION))
  /\ JoiOptional(env.CORS_ORIGIN, JoiString(env.CORS_ORIGIN))
  /\ JoiOptional(env.N8N_WEBHOOK_URL,
                 JoiString(env.N8N_WEBHOOK_URL) /\ env.N8N_WEBHOOK_URL.val \in UriTexts)

\* ConfigValidationService.validationSchema: does the environment pass?
validationSchema(env) ==
  /\ JoiOptional(env.PORT, env.PORT.val \in NumberTexts)
  /\ JoiOptional(env.NODE_ENV, JoiString(env.NODE_ENV) /\ env.NODE_ENV.val \in NodeEnvs)
  /\ JoiRequired(env.DATABASE_URL, JoiString(env.DATABASE_URL))
  /\ JoiRequired(env.JWT_SECRET,
                 JoiString(env.JWT_SECRET) /\ env.JWT_SECRET.len >= JwtSecretMin)
  /\ JoiOptional(env.JWT_EXPIRATION, JoiString(env.JWT_EXPIRATION))
  /\ JoiRequired(env.CORS_ORIGIN, JoiString(env.CORS_ORIGIN))
  /\ JoiRequired(env.N8N_WEBHOOK_URL,
                 JoiString(env.N8N_WEBHOOK_URL) /\ env.N8N_WEBHOOK_URL.val \in UriTexts)

\* process.env.X || fallback: the value in effect and whether it is the fallback.
OrElse(v, fallback) ==
  IF v.set /\ v.len > 0 THEN [val |-> v.val, fallback |-> FALSE]
  ELSE [val |-> fallback, fallback |-> TRUE]

\* The configuration factory.
configuration(env) ==
  [port |-> OrElse(env.PORT, "4000"),
   nodeEnv |-> OrElse(env.NODE_ENV, "development"),
   database |-> [url |-> OrElse(env.DATABASE_URL, "")],
   jwt |-> [secret |-> OrElse(env.JWT_SECRET, ""),
            expiresIn |-> OrElse(env.JWT_EXPIRATION, "1d")],
   cors |-> [origin |-> OrElse(env.CORS_ORIGIN,
                               "http://akk-frontend.panel.evonix-development.tech")],
   n8n |-> [webhookUrl |-> OrElse(env.N8N_WEBHOOK_URL, "")]]

FrontIdle ==
  /\ Commit(Heap)
  /\ UNCHANGED <<now, cookies, meReq, loginReq, logoutReq, refreshReq, getTokenFn,
                 api, vkm, useItems, last, instances, loggedOut>>

\* The process starts with an environment.
ServerBoot(env) == [st |-> "boot", env |-> env]

\* bootstrap(): NestFactory.create(AppModule) validates the environment in
\* ConfigModule.forRoot and throws when it does not pass; otherwise the
\* configuration factory is loaded and the application listens.
Bootstrap ==
  /\ server.st = "boot"
  /\ server' = IF validationSchema(server.env)
               THEN [st |-> "running", env |-> server.env,
                     config |-> configuration(server.env)]
               ELSE [st |-> "failed", env |-> server.env]
  /\ UNCHANGED <<db, http, issued>>
  /\ FrontIdle

\* The running process is replaced by a new deployment with an environment.
Restart(env) ==
  /\ server.st = "running"
  /\ server' = ServerBoot(env)
  /\ http' = NoHttp
  /\ UNCHANGED <<db, issued>>
  /\ FrontIdle

InitConfig ==
  /\ InitPage /\ cookies = {}
  /\ vkm = VkmIdle
  /\ server \in {ServerBoot(env) : env \in Environments}
  /\ db = [users |-> {}, vkm |-> {}]
  /\ http = NoHttp
  /\ instances = Loaded
  /\ issued = NoneIssued

\* ------------------------------------------------------------ backend auth
Passwords == {"p1", "p2"}
\* A stored password: bcrypt.hash(p, 10), or the string p itself.
Hash(p) == [bcrypt |-> TRUE, of |-> p]
Plain(p) == [bcrypt |-> FALSE, of |-> p]
\* bcrypt.compare(pass, stored): false when stored is not a hash.
bcryptCompare(pass, stored) == stored.bcrypt /\ stored.of = pass

UserDoc(id, password, is_admin) ==
  [_id |-> id, email |-> Email(id), password |-> password, is_admin |-> is_admin]
SeedUsers == {UserDoc("u1", Hash("p1"), FALSE), UserDoc("u2", Hash("p2"), TRUE)}

findByEmail(users, email) ==
  IF \E u \in users : u.email = email
  THEN CHOOSE u \in users : u.email = email
  ELSE Null

\* AuthService.validateUser: the user without its password, or null.
validateUser(users, email, pass) ==
  LET user == findByEmail(users, email)
  IN IF user = Null THEN Null
     ELSE IF ~bcryptCompare(pass, user.password) THEN Null
     ELSE [_id |-> user._id, email |-> user.email, is_admin |-> user.is_admin]

\* jwt.expiresIn in minutes: '1d' unless JWT_EXPIRATION says '1m'.
ExpiresIn(config) == IF config.jwt.expiresIn.val = "1m" THEN 1 ELSE JwtExpiresIn

\* JwtService.sign(payload)
sign(payload, t, config) ==
  [kind |-> "jwt", username |-> payload.username, sub |-> payload.sub,
   is_admin |-> payload.is_admin, exp |-> t + ExpiresIn(config), iat |-> t,
   signed |-> TRUE]

\* AuthService.login
login(user, t, config) ==
  [access_token |->
     sign([username |-> user.email, sub |-> user._id, is_admin |-> user.is_admin],
          t, config)]

CookieMaxAge == 24 * 60 * 60 * 1000

\* Faulty variant: the cookie options of the earlier controller.
loginCookieOptionsStrict(config) ==
  [httpOnly |-> TRUE, secure |-> config.nodeEnv.val = "production",
   sameSite |-> "strict", domain |-> HostOnly, maxAge |-> CookieMaxAge]

\* The options AuthController.login passes to res.cookie.
loginCookieOptions(config) ==
  LET isProduction == config.nodeEnv.val = "production"
  IN [httpOnly |-> TRUE, secure |-> isProduction,
      sameSite |-> IF isProduction THEN "none" ELSE "lax",
      domain |-> ParentDomain, maxAge |-> CookieMaxAge]

BackendStep ==
  /\ server.st = "running"
  /\ UNCHANGED server
  /\ FrontIdle

\* POST /auth/login: the local guard calls validateUser; the handler signs a
\* token, sets the cookie and returns the token.
PostAuthLogin(email, pass) ==
  /\ BackendStep
  /\ LET user == validateUser(db.users, email, pass)
     IN IF user = Null
        THEN /\ http' = [op |-> "login", email |-> email, status |-> 401]
             /\ UNCHANGED issued
        ELSE LET result == login(user, now, server.config)
             IN /\ http' = [op |-> "login", email |-> email, status |-> 201,
                            body |-> result,
                            setCookie |-> [name |-> "access_token",
                                           value |-> result.access_token,
                                           options |-> loginCookieOptions(server.config)]]
                /\ issued' = [issued EXCEPT ![user._id] =
                                [token |-> result.access_token, user |-> user]]
  /\ UNCHANGED db

\* A token the backend's secret did not sign.
Forged == Jwt("u2", 0, JwtExpiresIn, FALSE)
\* What a client can put in the Authorization header or the cookie.
Credentials == {Null, Forged} \cup {issued[u].token : u \in {x \in Users : issued[x] # Null}}

\* Faulty variant: only the cookie is looked at.
jwtFromRequestCookieOnly(req) == req.cookie

\* ExtractJwt.fromExtractors: the Bearer header first, then the cookie.
jwtFromRequest(req) == IF req.bearer # Null THEN req.bearer ELSE req.cookie

\* AuthGuard('jwt')
JwtAuthGuard(req, t) == JwtGuardAccepts(jwtFromRequest(req), t)

\* GET /auth/me
GetAuthMe(bearer, cookie) ==
  /\ BackendStep
  /\ LET req == [bearer |-> bearer, cookie |-> cookie]
     IN http' = IF JwtAuthGuard(req, now)
                THEN [op |-> "me", bearer |-> bearer, cookie |-> cookie, at |-> now,
                      status |-> 200, body |-> Profile(jwtFromRequest(req))]
                ELSE [op |-> "me", bearer |-> bearer, cookie |-> cookie, at |-> now,
                      status |-> 401, body |-> Null]
  /\ UNCHANGED <<db, issued>>

\* UsersService.update: findByIdAndUpdate(id, data) writes the given fields as
\* they are.
findByIdAndUpdate(users, id, data) ==
  {IF u._id = id
   THEN [f \in DOMAIN u |-> IF f \in DOMAIN data THEN data[f] ELSE u[f]]
   ELSE u : u \in users}

\* PUT /users/:id
PutUser(id, data) ==
  /\ BackendStep
  /\ db' = [db EXCEPT !.users = findByIdAndUpdate(db.users, id, data)]
  /\ http' = [op |-> "putUser", id |-> id, data |-> data, status |-> 200]
  /\ UNCHANGED issued

AuthEnvs ==
  {e \in Environments :
     /\ validationSchema([e EXCEPT !.NODE_ENV = Unset])
     /\ e.PORT = Unset
     /\ e.JWT_EXPIRATION \in {Unset, EnvStr("1m", 2)}}

InitAuthApi ==
  /\ InitPage /\ cookies = {}
  /\ vkm = VkmIdle
  /\ server \in {ServerBoot(env) : env \in AuthEnvs}
  /\ db = [users |-> SeedUsers, vkm |-> {}]
  /\ http = NoHttp
  /\ instances = Loaded
  /\ issued = NoneIssued

\* ------------------------------------------------------------- backend vkm
VkmRoutes == {"findAll", "findOne", "create", "update", "delete"}
VkmNames == {"a", "b"}

\* Faulty variant: only the writes that name an id are guarded.
UseGuardsByIdOnly(route) == route \in {"update", "delete"}

\* @UseGuards(JwtAuthGuard) on the handler of the route.
UseGuards(route) == route \in {"findOne", "create", "update", "delete"}

\* VkmService on the collection: what the collection becomes.
VkmService(coll, route, id, name) ==
  CASE route = "create" ->
         IF \E d \in coll : d._id = id THEN coll
         ELSE coll \cup {[_id |-> id, name |-> name]}
    [] route = "update" ->
         {IF d._id = id THEN [d EXCEPT !.name = name] ELSE d : d \in coll}
    [] route = "delete" -> {d \in coll : d._id # id}
    [] OTHER -> coll

\* A request to a vkm route: the guard first, then the handler and VkmService.
VkmRequest(route, id, name, bearer, cookie) ==
  /\ BackendStep
  /\ route = "create" => id = Cardinality(db.vkm) + 1
  /\ LET req == [bearer |-> bearer, cookie |-> cookie]
         pass == ~UseGuards(route) \/ JwtAuthGuard(req, now)
     IN /\ http' = [op |-> "vkm", route |-> route, bearer |-> bearer,
                    cookie |-> cookie, at |-> now, reached |-> pass,
                    status |-> IF pass THEN 200 ELSE 401]
        /\ db' = IF pass
                 THEN [db EXCEPT !.vkm = VkmService(db.vkm, route, id, name)]
                 ELSE db
  /\ UNCHANGED issued

VkmEnvs == {e \in AuthEnvs : e.NODE_ENV = Unset}

InitVkmApi ==
  /\ InitPage /\ cookies = {}
  /\ vkm = VkmIdle
  /\ server \in {ServerBoot(env) : env \in VkmEnvs}
  /\ db = [users |-> SeedUsers, vkm |-> {}]
  /\ http = NoHttp
  /\ instances = Loaded
  /\ issued = NoneIssued

\* ----------------------------------------------------------- backend users
\* UsersService.create: the password is hashed; the unique index on email
\* refuses a second user with the same email.
create(users, dto) ==
  IF \E u \in users : u.email = dto.email THEN users
  ELSE users \cup {UserDoc(dto._id, Hash(dto.password), dto.is_admin)}

\* POST /users
PostUser(id, pass, is_admin) ==
  /\ BackendStep
  /\ LET dto == [_id |-> id, email |-> Email(id), password |-> pass, is_admin |-> is_admin]
         saved == ~\E u \in db.users : u.email = dto.email
     IN /\ db' = [db EXCEPT !.users = create(db.users, dto)]
        /\ http' = [op |-> "postUser", id |-> id, data |-> [password |-> Plain(pass)],
                    status |-> IF saved THEN 201 ELSE 500]
  /\ UNCHANGED issued

\* UsersService.delete
findByIdAndDelete(users, id) == {u \in users : u._id # id}

\* DELETE /users/:id
DeleteUser(id) ==
  /\ BackendStep
  /\ db' = [db EXCEPT !.users = findByIdAndDelete(db.users, id)]
  /\ http' = [op |-> "deleteUser", id |-> id, status |-> 200]
  /\ UNCHANGED issued

\* Bodies of PUT /users/:id: a Partial<CreateUserDto>.
UserUpdates ==
  {[password |-> Plain(p)] : p \in Passwords}
    \cup {[is_admin |-> b] : b \in BOOLEAN}
    \cup {[password |-> Plain(p), is_admin |-> b] : p \in Passwords, b \in BOOLEAN}

InitUsers ==
  /\ InitPage /\ cookies = {}
  /\ vkm = VkmIdle
  /\ server \in {ServerBoot(env) : env \in VkmEnvs}
  /\ db = [users |-> {}, vkm |-> {}]
  /\ http = NoHttp
  /\ instances = Loaded
  /\ issued = NoneIssued

\* --------------------------------------------------------------- singletons
\* new C(): one more instance, stored in the static field.
build(i, cls) ==
  [i EXCEPT !.built[cls] = @ + 1, !.instance[cls] = i.built[cls] + 1]

\* ConfigManager.getInstance()
getConfig(i) == IF i.instance["ConfigManager"] = 0 THEN build(i, "ConfigManager") ELSE i

\* Faulty variant: an instance is constructed at every call.
getInstanceAlwaysNew(i, cls) ==
  IF cls = "ConfigManager" THEN build(i, cls)
  ELSE LET j == build(getConfig(i), cls)
       IN IF cls = "AuthManager" /\ i.window
          THEN [j EXCEPT !.sessions = @ + 1] ELSE j

\* C.getInstance(): constructs only when the static field is unset.  ApiClient
\* and AuthManager initialise their config field with getConfig(); the
\* AuthManager constructor runs initializeSession() when window is defined.
getInstance(i, cls) ==
  IF i.instance[cls] # 0 THEN i
  ELSE IF cls = "ConfigManager" THEN build(i, cls)
  ELSE LET j == build(getConfig(i), cls)
       IN IF cls = "AuthManager" /\ i.window
          THEN [j EXCEPT !.sessions = @ + 1] ELSE j

\* A call of C.getInstance() or of the exported getter getConfig() /
\* getApiClient() / getAuthManager().
GetInstance(cls, via) ==
  /\ instances.built[cls] <= MaxBuilt
  /\ LET j == getInstance(instances, cls)
     IN /\ instances' = [op |-> via, window |-> j.window, instance |-> j.instance,
                         built |-> j.built, sessions |-> j.sessions,
                         cls |-> cls, ret |-> j.instance[cls]]
        /\ meReq' = IF j.sessions > instances.sessions
                    THEN [st |-> "sent", cookie |-> CookieSent(cookies)]
                    ELSE meReq
  /\ last' = [op |-> "getInstance"]
  /\ Commit(Heap)
  /\ UNCHANGED <<now, cookies, loginReq, logoutReq, refreshReq, getTokenFn, api, vkm,
                 server, db, http, issued, loggedOut, useItems>>

\* A JavaScript realm in which no module asked for a singleton yet.
InitSingleton ==
  /\ loggedOut = FALSE
  /\ useItems = UseItemsInit
  /\ now = 0
  /\ token = Null
  /\ decodedToken = Null
  /\ refreshTimer = 0
  /\ authStateListeners = <<>>
  /\ timers = {}
  /\ hook = HookInit
  /\ round = <<>>
  /\ cookies \in {{}, {[domain |-> ParentDomain, value |-> SignToken("u1", 0)]}}
  /\ meReq = NoReq
  /\ loginReq = NoReq
  /\ logoutReq = NoReq
  /\ refreshReq = NoReq
  /\ getTokenFn = "none"
  /\ api = ApiIdle
  /\ last = [op |-> "load"]
  /\ vkm = VkmIdle
  /\ server = ServerDown
  /\ db = [users |-> {}, vkm |-> {}]
  /\ http = NoHttp
  /\ instances \in {NoInstances(w) : w \in BOOLEAN}
  /\ issued = NoneIssued

\* ------------------------------------------------------------ backend sync
Groups == {"A", "B"}
\* A user document that has a group.
GroupUser(id, password, is_admin, group) ==
  [_id |-> id, email |-> Email(id), password |-> password, is_admin |-> is_admin,
   group |-> group]

\* The documents a user id can have in the collection.
UserVariants(id) ==
  {UserDoc(id, pw, adm) : pw \in {Hash("p1"), Plain("p2")}, adm \in BOOLEAN}
    \cup {GroupUser(id, pw, adm, g) :
            pw \in {Hash("p1"), Plain("p2")}, adm \in BOOLEAN, g \in Groups}

\* Path segments after /sync/: 'all', ids of 24 hex digits, and a string that
\* is no ObjectId.
ObjectIds == {"u1", "u2", "u3"}
Segments == {"all", "bad"} \cup ObjectIds

\* Faulty variant: the whole document is sent.
selectEverything(doc, fields) == doc

\* Query.select(fields): _id and the named fields the document has.
select(doc, fields) ==
  [f \in (fields \cup {"_id"}) \cap DOMAIN doc |-> doc[f]]

\* Model.findById(id).select('group'): a CastError for a string that is no
\* ObjectId, else the document or null.
findById(users, id) ==
  IF id \notin ObjectIds THEN [kind |-> "CastError"]
  ELSE IF \E u \in users : u._id = id
  THEN select(CHOOSE u \in users : u._id = id, {"group"})
  ELSE Null

\* What the webhook does with a POST: a response, or no response at all.
WebhookAnswers ==
  {[kind |-> "response", status |-> st, data |-> "reply"] : st \in {200, 500}}
    \cup {[kind |-> "none"]}

\* axios.post: resolves with the response when its status is 2xx and rejects
\* otherwise.
axiosPost(answer) ==
  IF answer.kind = "response" /\ answer.status \in 200..299
  THEN [kind |-> "return", value |-> [status |-> answer.status, data |-> answer.data]]
  ELSE [kind |-> "throw", error |-> "AxiosError"]

\* SyncService.sendAllUsersAndVkmToN8n: the POSTs sent and the outcome.
sendAllUsersAndVkmToN8n(d, answer) ==
  LET users == {select(u, {"group"}) : u \in d.users}
      payload == [users |-> users, vkm |-> d.vkm]
  IN [posts |-> <<payload>>, result |-> axiosPost(answer)]

\* SyncService.sendUserAndVkmToN8n
sendUserAndVkmToN8n(d, userId, answer) ==
  LET user == findById(d.users, userId)
  IN IF user = [kind |-> "CastError"]
     THEN [posts |-> <<>>, result |-> [kind |-> "throw", error |-> "CastError"]]
     ELSE IF user = Null
     THEN [posts |-> <<>>,
           result |-> [kind |-> "throw", error |-> "NotFoundException: User not found"]]
     ELSE [posts |-> <<[user |-> user, vkm |-> d.vkm]>>, result |-> axiosPost(answer)]

\* SyncController: its @Post routes in the order they are declared.
SyncRoutes == <<"all", ":userId">>

RouteMatches(pattern, seg) == pattern = ":userId" \/ pattern = seg

\* The router takes the first declared route that matches.
SyncRoute(seg) ==
  SyncRoutes[CHOOSE i \in 1..Len(SyncRoutes) :
               /\ RouteMatches(SyncRoutes[i], seg)
               /\ \A j \in 1..(i - 1) : ~RouteMatches(SyncRoutes[j], seg)]

\* POST /sync/<seg>
SyncRequest(seg, answer) ==
  /\ BackendStep
  /\ LET handler == SyncRoute(seg)
         r == IF handler = "all"
              THEN sendAllUsersAndVkmToN8n(db, answer)
              ELSE sendUserAndVkmToN8n(db, seg, answer)
     IN http' = [op |-> "sync", seg |-> seg, handler |-> handler, answer |-> answer,
                 posts |-> r.posts, result |-> r.result]
  /\ UNCHANGED <<db, issued>>

InitSync ==
  /\ InitPage /\ cookies = {}
  /\ vkm = VkmIdle
  /\ server \in {ServerBoot(env) : env \in VkmEnvs}
  /\ \E a \in UserVariants("u1") \cup {Null}, b \in UserVariants("u2") \cup {Null} :
       db = [users |-> {a, b} \ {Null}, vkm |-> {[_id |-> 1, name |-> "a"]}]
  /\ http = NoHttp
  /\ instances = Loaded
  /\ issued = NoneIssued

\* The sync routes over a database that does not change.
NextSync ==
  \/ Bootstrap
  \/ \E seg \in Segments, answer \in WebhookAnswers : SyncRequest(seg, answer)

SpecSync == InitSync /\ [][NextSync]_vars

\* ---------------------------------------------------------------- useItems
\* The item the backend returns for a payload it stored under _id.
ItemOf(id, payload) ==
  [_id |-> id, name |-> payload.name, shortdescription |-> payload.shortdescription,
   content |-> payload.content, studycredit |-> payload.studycredit,
   location |-> payload.location, contact_id |-> payload.contact_id,
   level |-> payload.level]

\* items.find(i => String(i._id) === String(id))
find(items, id) ==
  IF \E i \in 1..Len(items) : items[i]._id = id
  THEN items[CHOOSE i \in 1..Len(items) :
               items[i]._id = id /\ \A j \in 1..(i - 1) : items[j]._id # id]
  ELSE Undefined

\* Faulty variant: the payload is sent without looking at the errors.
addItemUnchecked(st, item, t) ==
  [state |-> [st EXCEPT !.reqs = @ \cup {[kind |-> "create", n |-> st.next,
                                           payload |-> createNew(item.name, item.description, t)]},
                        !.next = @ + 1],
   threw |-> FALSE]

\* addItem up to the await of createItem: the hook's state and whether the
\* call threw 'Validation failed: ...'.
addItem(st, item, t) ==
  LET payload == createNew(item.name, item.description, t)
      validationErrors == validate(payload)
  IN IF Len(validationErrors) > 0
     THEN [state |-> st, threw |-> TRUE]
     ELSE [state |-> [st EXCEPT !.reqs = @ \cup {[kind |-> "create", n |-> st.next,
                                                   payload |-> payload]},
                                !.next = @ + 1],
           threw |-> FALSE]

\* editItem up to the await of updateItem.
editItem(st, id, item) ==
  LET existing == find(st.items, id)
  IN IF existing = Undefined THEN [state |-> st, threw |-> FALSE]
     ELSE LET payload == createFromExisting(existing,
                           [NoUpdates EXCEPT !.name = item.name,
                                             !.shortdescription = item.description])
              validationErrors == validate(payload)
          IN IF Len(validationErrors) > 0
             THEN [state |-> st, threw |-> TRUE]
             ELSE [state |-> [st EXCEPT !.reqs = @ \cup {[kind |-> "update", id |-> id,
                                                           payload |-> payload]}],
                   threw |-> FALSE]

\* setItems(prev => prev.map(i => String(i._id) === String(id) ? updated : i))
replaceItem(items, id, updated) ==
  [i \in 1..Len(items) |-> IF items[i]._id = id THEN updated ELSE items[i]]

\* What a form hands to addItem and editItem.
ItemNames == {EmptyStr, Str(MaxPad, 1, 0), Str(0, NameMax + 1, 0)}
ItemDescriptions == {Str(0, 0, MaxPad), Str(0, 1, 0)}
ItemForms == [name : ItemNames, description : ItemDescriptions]

ItemsStep ==
  /\ Commit(Heap)
  /\ UNCHANGED <<now, cookies, meReq, loginReq, logoutReq, refreshReq, getTokenFn,
                 api, vkm>>
  /\ BackendIdle /\ CallerIdle

\* The two items the backend holds when the page loads.
Fetched ==
  <<ItemOf(1, createNew(Str(0, 1, 0), Str(0, 1, 0), 0)),
    ItemOf(2, createNew(Str(0, 2, 0), Str(0, 1, 0), 0))>>

\* getItems() of the mount effect settles: .then(setItems) or .catch.
GetItemsSettles(ok) ==
  /\ [kind |-> "get"] \in useItems.reqs
  /\ useItems' = [useItems EXCEPT !.reqs = @ \ {[kind |-> "get"]},
                                  !.loading = FALSE,
                                  !.items = IF ok THEN Fetched ELSE @]
  /\ last' = [op |-> "getItems", ok |-> ok]
  /\ ItemsStep

AddItem(item) ==
  /\ useItems.next < 3 + MaxItems
  /\ LET r == addItem(useItems, item, now)
     IN /\ useItems' = r.state
        /\ last' = [op |-> "addItem", item |-> item, threw |-> r.threw]
  /\ ItemsStep

EditItem(id, item) ==
  /\ Cardinality(useItems.reqs) <= MaxItems
  /\ LET r == editItem(useItems, id, item)
     IN /\ useItems' = r.state
        /\ last' = [op |-> "editItem", id |-> id, item |-> item, threw |-> r.threw]
  /\ ItemsStep

\* createItem resolved: setItems(prev => [...prev, newItem]); or rejected.
CreateItemSettles(req, ok) ==
  /\ req \in useItems.reqs
  /\ req.kind = "create"
  /\ LET newItem == ItemOf(req.n, req.payload)
     IN /\ useItems' = [useItems EXCEPT !.reqs = @ \ {req},
                                        !.items = IF ok THEN Append(@, newItem) ELSE @]
        /\ last' = [op |-> "createSettled", ok |-> ok, item |-> newItem]
  /\ ItemsStep

\* updateItem resolved or rejected.
UpdateItemSettles(req, ok) ==
  /\ req \in useItems.reqs
  /\ req.kind = "update"
  /\ LET updated == ItemOf(req.id, req.payload)
     IN /\ useItems' = [useItems EXCEPT !.reqs = @ \ {req},
                                        !.items = IF ok THEN replaceItem(@, req.id, updated)
                                                  ELSE @]
        /\ last' = [op |-> "updateSettled", ok |-> ok, id |-> req.id, item |-> updated]
  /\ ItemsStep

\* A component that uses useItems.
NextItems ==
  \/ \E ok \in BOOLEAN : GetItemsSettles(ok)
  \/ \E item \in ItemForms : AddItem(item)
  \/ \E id \in 1..(3 + MaxItems), item \in ItemForms : EditItem(id, item)
  \/ \E req \in useItems.reqs, ok \in BOOLEAN : CreateItemSettles(req, ok)
  \/ \E req \in useItems.reqs, ok \in BOOLEAN : UpdateItemSettles(req, ok)

InitItems == InitPage /\ cookies = {} /\ vkm = VkmIdle /\ InitBackendIdle

SpecItems == InitItems /\ [][NextItems]_vars

\* The AuthManager with the browser and the backend, nobody subscribed.
Next ==
  \/ Tick
  \/ \E net \in BOOLEAN, kill \in BOOLEAN : InitializeSessionResponse(net, kill)
  \/ \E good \in BOOLEAN : Login(good, FALSE)
  \/ \E net \in BOOLEAN, kill \in BOOLEAN : LoginResponse(net, kill)
  \/ \E tok \in SetTokenInputs, kill \in BOOLEAN : SetTokenCall(tok, kill)
  \/ \E kill \in BOOLEAN : GetTokenCall(kill)
  \/ \E kill \in BOOLEAN : ClearTokenCall(kill)
  \/ \E kill \in BOOLEAN : Logout(kill)
  \/ \E net \in BOOLEAN : LogoutResponse(net)
  \/ RefreshTimerFire
  \/ \E o \in {"token", "empty", "fail", "throw"}, kill \in BOOLEAN : RefreshResponse(o, kill)
  \/ PageLoad

Spec == Init /\ [][Next]_vars

\* The AuthManager with two subscribed listeners, the first of which may
\* unsubscribe the second while it is being notified.
NextSub ==
  \/ Tick
  \/ \E net \in BOOLEAN, kill \in BOOLEAN : InitializeSessionResponse(net, kill)
  \/ Login(TRUE, FALSE)
  \/ \E net \in BOOLEAN, kill \in BOOLEAN : LoginResponse(net, kill)
  \/ \E tok \in SetTokenInputs, kill \in BOOLEAN : SetTokenCall(tok, kill)
  \/ \E kill \in BOOLEAN : GetTokenCall(kill)
  \/ \E kill \in BOOLEAN : ClearTokenCall(kill)
  \/ \E kill \in BOOLEAN : Logout(kill)
  \/ \E l \in Listeners : Subscribe(l)
  \/ \E l \in Listeners : Unsubscribe(l)

SpecSub == Init /\ [][NextSub]_vars

\* The AuthManager with a component that uses useAuth.
NextHook ==
  \/ Tick
  \/ \E net \in BOOLEAN, kill \in BOOLEAN : InitializeSessionResponse(net, kill)
  \/ \E viaHook \in BOOLEAN : Login(TRUE, viaHook)
  \/ \E net \in BOOLEAN, kill \in BOOLEAN : LoginResponse(net, kill)
  \/ \E tok \in SetTokenInputs, kill \in BOOLEAN : SetTokenCall(tok, kill)
  \/ \E kill \in BOOLEAN : GetTokenCall(kill)
  \/ \E kill \in BOOLEAN : ClearTokenCall(kill)
  \/ \E kill \in BOOLEAN : Logout(kill)
  \/ HookRender
  \/ HookEffect
  \/ HookUnmount

SpecHook == Init /\ [][NextHook]_vars

\* The ApiClient wired to the AuthManager.
NextApi ==
  \/ Tick
  \/ \E tok \in SetTokenInputs, kill \in BOOLEAN : SetTokenCall(tok, kill)
  \/ SetTokenGetter
  \/ \E m \in Methods, ra \in {"undefined", "true", "false"}, ca \in BOOLEAN,
        kill \in BOOLEAN : ApiRequest(m, ra, ca, kill)
  \/ \E st \in Statuses, b \in Bodies : FetchResolves(st, b)
  \/ FetchRejects

SpecApi == Init /\ [][NextApi]_vars

\* The VKMFactory on its own.
NextVkm == Validate \/ CreateNew

SpecVkm == InitVkm /\ [][NextVkm]_vars

\* Backend startup.
NextConfig ==
  \/ Bootstrap
  \/ \E env \in {e \in Environments : e.PORT = Unset /\ e.JWT_EXPIRATION = Unset} :
       Restart(env)

SpecConfig == InitConfig /\ [][NextConfig]_vars

\* The backend's auth routes.
NextAuthApi ==
  \/ Bootstrap
  \/ Tick
  \/ \E u \in Users, pass \in Passwords : PostAuthLogin(Email(u), pass)
  \/ \E bearer \in Credentials, cookie \in Credentials : GetAuthMe(bearer, cookie)
  \/ \E u \in Users, b \in BOOLEAN : PutUser(u, [is_admin |-> b])

SpecAuthApi == InitAuthApi /\ [][NextAuthApi]_vars

\* The singletons and the AuthManager once it exists.
NextSingleton ==
  \/ \E cls \in Classes, via \in {"getInstance", "getter"} : GetInstance(cls, via)
  \/ instances.instance["AuthManager"] # 0 /\
       \/ Tick
       \/ \E net \in BOOLEAN : InitializeSessionResponse(net, FALSE)
       \/ \E tok \in SetTokenInputs : SetTokenCall(tok, FALSE)
       \/ ClearTokenCall(FALSE)

SpecSingleton == InitSingleton /\ [][NextSingleton]_vars

\* The VKMFactory's factories.
NextFactory ==
  \/ CreateNewOf
  \/ CreateComplete
  \/ CreateFromExisting
  \/ ToInput
  \/ CreatePartial
  \/ Update

SpecFactory == InitFactory /\ [][NextFactory]_vars

\* The AuthManager's refresh schedule.
NextRefresh ==
  \/ Tick
  \/ \E net \in BOOLEAN : InitializeSessionResponse(net, FALSE)
  \/ \E tok \in RefreshInputs : SetTokenCall(tok, FALSE)
  \/ ClearTokenCall(FALSE)
  \/ RefreshTimerFire
  \/ \E o \in {"token", "empty", "fail", "throw"} : RefreshResponse(o, FALSE)

SpecRefresh == Init /\ [][NextRefresh]_vars

\* The token refresh with subscribed listeners.
NextRefreshSub ==
  \/ Tick
  \/ \E tok \in SetTokenInputs : SetTokenCall(tok, FALSE)
  \/ \E l \in Listeners : Subscribe(l)
  \/ \E l \in Listeners : Unsubscribe(l)
  \/ RefreshTimerFire
  \/ \E o \in {"token", "empty", "fail", "throw"}, kill \in BOOLEAN : RefreshResponse(o, kill)

SpecRefreshSub == Init /\ [][NextRefreshSub]_vars

\* The backend's vkm routes, with logins to obtain tokens.
NextVkmApi ==
  \/ Bootstrap
  \/ Tick
  \/ \E pass \in Passwords : PostAuthLogin(Email("u1"), pass)
  \/ \E route \in VkmRoutes, id \in 1..MaxVkm, name \in VkmNames,
        bearer \in Credentials, cookie \in Credentials :
       VkmRequest(route, id, name, bearer, cookie)

SpecVkmApi == InitVkmApi /\ [][NextVkmApi]_vars

\* The guarded routes while users are updated and deleted.
NextIdentity ==
  \/ Bootstrap
  \/ \E u \in Users, pass \in Passwords : PostAuthLogin(Email(u), pass)
  \/ \E bearer \in Credentials, cookie \in Credentials : GetAuthMe(bearer, cookie)
  \/ \E bearer \in Credentials, cookie \in Credentials :
       VkmRequest("findOne", 1, "a", bearer, cookie)
  \/ \E u \in Users, b \in BOOLEAN : PutUser(u, [is_admin |-> b])
  \/ \E u \in Users : DeleteUser(u)

SpecIdentity == InitVkmApi /\ [][NextIdentity]_vars

\* The backend's users routes.
NextUsers ==
  \/ Bootstrap
  \/ \E u \in Users, pass \in Passwords, b \in BOOLEAN : PostUser(u, pass, b)
  \/ \E u \in Users, data \in UserUpdates : PutUser(u, data)

SpecUsers == InitUsers /\ [][NextUsers]_vars

\* -------------------------------------------------------------- properties
Unauthenticated == [isAuthenticated |-> FALSE, token |-> Null, user |-> Null]
Invoked(l) == \E i \in 1..Len(round) : round[i].l = l

\* C1: getToken() never returns a token whose exp claim is earlier than the
\* current time, and when the held token is expired it returns null and
\* leaves token and decodedToken null.
C1_GetTokenNeverExpired ==
  last.op = "getToken" =>
    /\ last.ret.kind = "jwt" => ~(last.ret.exp < last.at)
    /\ (last.held.kind = "jwt" /\ last.held.exp < last.at) =>
         (last.ret = Null /\ token = Null /\ decodedToken = Null)

\* C2: right after logout() or clearToken(), token and decodedToken are null,
\* isAuthenticated() is false, no refresh timer is pending and every
\* subscribed listener has been invoked with the unauthenticated state.
C2_LogoutCleansUp ==
  last.op \in {"logout", "clearToken"} =>
    /\ token = Null
    /\ decodedToken = Null
    /\ ~isAuthenticated(Heap)
    /\ timers = {}
    /\ refreshTimer = 0
    /\ \A l \in Range(authStateListeners) :
         \E i \in 1..Len(round) : round[i].l = l /\ round[i].state = Unauthenticated

C2_Witness ==
  /\ last.op = "logout"
  /\ last.hadTimer
  /\ last.wasAuthenticated
  /\ Len(authStateListeners) = 2
  /\ Len(round) = 2

\* C3: once POST /auth/logout has succeeded the browser no longer holds the
\* access_token cookie, so nothing is sent with a following GET /auth/me.
C3_LogoutClearsCookie ==
  (last.op = "logoutResponse" /\ last.ok) => CookieSent(cookies) = Null

\* C4: every failing request rejects with an ApiError; for a non-OK response
\* its status is the HTTP status and details holds the body, whatever the
\* body; status 0 with 'Network error or server unavailable' comes only from
\* a failure of fetch itself.
C4_ErrorsConsistent ==
  (api.pc = "settled" /\ api.outcome.kind = "rejected") =>
    LET e == api.outcome.error
    IN /\ DOMAIN e = {"message", "status", "details"}
       /\ (api.fetched /\ ~ResponseOk(Response(api.status, api.body))) =>
            (e.status = api.status /\ e.details = api.body)
       /\ e.status = 0 =>
            (~api.fetched /\ e.message = "Network error or server unavailable")

C8_Trigger ==
  \/ token' # token
  \/ decodedToken' # decodedToken
  \/ last'.op \in {"setToken", "clearToken", "logout"}
  \/ last'.op \in {"sessionResponse", "loginResponse"} /\ last'.ok

C8_ChangeNotifies ==
  [][C8_Trigger =>
       /\ \A l \in Range(authStateListeners) : \E i \in 1..Len(round') : round'[i].l = l
       /\ \A i \in 1..Len(round') :
            round'[i].state = [isAuthenticated |-> decodedToken' # Null,
                               token |-> token', user |-> decodedToken']]_vars

C8_Witness ==
  /\ last.op = "sessionResponse"
  /\ last.ok
  /\ token # Null
  /\ Len(round) = 2

\* C9: a listener is not invoked once its unsubscribe function has been
\* called, also when that happens inside another listener during a round.
C9_NoCallAfterUnsubscribe ==
  \A i \in 1..Len(round) : round[i].subscribed

NonBlank(v) == IsString(v) /\ Length(Trim(v)) > 0
AtMost(v, n) == IsString(v) => Length(v) <= n
CreditInRange(c) == ~c.nan /\ 0 <= c.v /\ c.v <= CreditMax
Count(b) == IF b THEN 0 ELSE 1

\* C5: validate(vkm) is empty exactly when name is non-blank after trimming
\* and at most 255 characters, shortdescription is non-blank after trimming
\* and at most 500 characters and studycredit is between 0 and 60 inclusive;
\* otherwise it holds one message per violated rule; isValid(vkm) is true
\* exactly when validate(vkm) is empty.
C5_ValidateRules ==
  vkm.op = "validate" =>
    LET v == vkm.input
        violated == Count(NonBlank(v.name)) + Count(AtMost(v.name, NameMax))
                    + Count(NonBlank(v.shortdescription))
                    + Count(AtMost(v.shortdescription, DescMax))
                    + Count(CreditInRange(v.studycredit))
    IN /\ (vkm.errors = <<>>) <=> (violated = 0)
       /\ Len(vkm.errors) = violated
       /\ vkm.valid <=> (vkm.errors = <<>>)

\* C6: createNew(name, description) is accepted by isValid exactly when both
\* inputs, after trimming, are non-blank and within 255 / 500 characters;
\* when both are blank validate returns exactly 'Name is required', 'Short
\* description is required', in that order.
C6_CreateNewValid ==
  vkm.op = "createNew" =>
    LET n == vkm.name
        d == vkm.description
    IN /\ vkm.valid <=>
            /\ NonBlank(n) /\ Length(Trim(n)) <= NameMax
            /\ NonBlank(d) /\ Length(Trim(d)) <= DescMax
       /\ (~NonBlank(n) /\ ~NonBlank(d)) =>
            vkm.errors = <<"Name is required", "Short description is required">>

C6_Witness ==
  /\ vkm.op = "createNew"
  /\ vkm.valid
  /\ vkm.name.lead > 0
  /\ vkm.name.core = NameMax
  /\ vkm.description.trail > 0

\* C11: the backend is running only when DATABASE_URL, JWT_SECRET,
\* CORS_ORIGIN and N8N_WEBHOOK_URL are set and non-empty, JWT_SECRET has at
\* least 32 characters, N8N_WEBHOOK_URL is a URI and NODE_ENV, if set, is one
\* of development / production / test; then none of the fallbacks for the
\* database URL, the JWT secret, the webhook URL and the CORS origin is in
\* effect.
C11_RunningIsValidated ==
  server.st = "running" =>
    LET e == server.env
        c == server.config
    IN /\ \A v \in {e.DATABASE_URL, e.JWT_SECRET, e.CORS_ORIGIN, e.N8N_WEBHOOK_URL} :
            v.set /\ v.len > 0
       /\ e.JWT_SECRET.len >= 32
       /\ e.N8N_WEBHOOK_URL.val \in UriTexts
       /\ e.NODE_ENV.set => e.NODE_ENV.val \in {"development", "production", "test"}
       /\ ~c.database.url.fallback
       /\ ~c.jwt.secret.fallback
       /\ ~c.n8n.webhookUrl.fallback
       /\ ~c.cors.origin.fallback

C11_Witness ==
  /\ server.st = "running"
  /\ server.env.JWT_SECRET.len = 32
  /\ ~server.env.NODE_ENV.set
  /\ server.config.nodeEnv.fallback

\* C12: the access_token cookie set by POST /auth/login is httpOnly with a
\* max age of 24 hours; secure and SameSite=None when NODE_ENV is
\* 'production', not secure and SameSite=Lax otherwise; SameSite=None never
\* comes without Secure.
C12_LoginCookie ==
  (http.op = "login" /\ http.status = 201) =>
    LET o == http.setCookie.options
        production == server.env.NODE_ENV.set /\ server.env.NODE_ENV.val = "production"
    IN /\ http.setCookie.name = "access_token"
       /\ o.httpOnly
       /\ o.maxAge = 86400000
       /\ production => (o.secure /\ o.sameSite = "none")
       /\ ~production => (~o.secure /\ o.sameSite = "lax")
       /\ o.sameSite = "none" => o.secure

C12_Witness ==
  /\ http.op = "login"
  /\ http.status = 201
  /\ server.env.NODE_ENV = EnvStr("production", 10)
  /\ http.setCookie.options.sameSite = "none"

Carries(tok) ==
  \/ http.bearer = tok
  \/ http.bearer = Null /\ http.cookie = tok

C14_Singletons ==
  /\ \A c \in Classes : instances.built[c] <= 1
  /\ instances.op # "none" =>
       /\ instances.ret = 1
       /\ instances.ret = instances.instance[instances.cls]
  /\ instances.sessions <= 1

C14_Witness ==
  /\ instances.op = "getter"
  /\ instances.cls = "AuthManager"
  /\ instances.sessions = 1
  /\ instances.built["ConfigManager"] = 1
  /\ meReq = NoReq
  /\ decodedToken # Null

StrFields == {"name", "shortdescription", "content", "location", "level"}
Trimmed(x) == IF x.kind = "str" THEN Str(0, x.core, 0) ELSE Str(0, 0, 0)
Clamped(x) ==
  IF x = Undefined \/ x.nan THEN Num(0)
  ELSE IF x.v < 0 THEN Num(0)
  ELSE IF x.v > 60 THEN Num(60)
  ELSE x

\* C15: what createNew, createComplete, createFromExisting, createPartial and
\* update return has name, shortdescription, content, location and level as
\* strings without leading or trailing whitespace (the empty string where the
\* value handed in was not a string) and a studycredit between 0 and 60.
C15_FactoriesSanitize ==
  vkm.op \in {"createNew", "createComplete", "createFromExisting", "createPartial", "update"} =>
    /\ \A f \in StrFields :
         /\ vkm.out[f].kind = "str"
         /\ vkm.out[f].lead = 0
         /\ vkm.out[f].trail = 0
         /\ vkm.updates[f] = Obj => vkm.out[f] = Str(0, 0, 0)
    /\ ~vkm.out.studycredit.nan
    /\ vkm.out.studycredit.v >= 0
    /\ vkm.out.studycredit.v <= 60

C15_Witness ==
  /\ vkm.op = "update"
  /\ vkm.existing.studycredit = Num(61)
  /\ vkm.updates.studycredit = Undefined
  /\ vkm.out.studycredit = Num(60)
  /\ vkm.updates.name = Obj
  /\ vkm.updates.level = Str(MaxPad, 2, MaxPad)
  /\ vkm.out.level = Str(0, 2, 0)

\* C16: createFromExisting(vkm, updates) holds, for each of name,
\* shortdescription, content, studycredit, location, contact_id and level,
\* the value updates supplies (an empty string or 0 included) and otherwise
\* the existing VKM's, trimmed / clamped; its id is updates.id when supplied
\* and otherwise the existing identifier; toInput(vkm) is
\* createFromExisting(vkm) without updates.
C16_MergeExisting ==
  /\ vkm.op = "createFromExisting" =>
       LET e == vkm.existing
           u == vkm.updates
           pick(f) == IF u[f] # Undefined THEN u[f] ELSE e[f]
       IN /\ \A f \in StrFields : vkm.out[f] = Trimmed(pick(f))
          /\ vkm.out.studycredit = Clamped(pick("studycredit"))
          /\ vkm.out.contact_id = pick("contact_id")
          /\ vkm.out.id = IF u.id # Undefined THEN u.id ELSE e._id
  /\ vkm.op = "toInput" =>
       LET e == vkm.existing
       IN /\ \A f \in StrFields : vkm.out[f] = Trimmed(e[f])
          /\ vkm.out.studycredit = Clamped(e.studycredit)
          /\ vkm.out.contact_id = e.contact_id
          /\ vkm.out.id = e._id

C16_Witness ==
  /\ vkm.op = "createFromExisting"
  /\ vkm.existing = ExistingFull
  /\ vkm.updates.name = Str(0, 0, 0)
  /\ vkm.out.name = Str(0, 0, 0)
  /\ vkm.updates.studycredit = Num(0)
  /\ vkm.out.studycredit = Num(0)
  /\ vkm.updates.content = Undefined
  /\ vkm.out.content.core = 1
  /\ vkm.updates.id = Num(0)
  /\ vkm.out.id = Num(0)

\* C17: after setToken(t) accepted a token whose exp is more than 5 minutes
\* ahead exactly one refresh is scheduled, due at exp minus 5 minutes, before
\* the token expires; when exp is 5 minutes or less ahead none is scheduled;
\* a later setToken replaces the earlier schedule.
C17_RefreshSchedule ==
  (last.op = "setToken" /\ last.tok.kind = "jwt" /\ token = last.tok) =>
    IF last.tok.exp - now > 5
    THEN /\ timers = {[id |-> refreshTimer, due |-> last.tok.exp - 5]}
         /\ \A x \in timers : x.due < last.tok.exp
    ELSE timers = {}

Authenticated(r) ==
  LET tok == IF r.bearer # Null THEN r.bearer ELSE r.cookie
  IN tok.kind = "jwt" /\ tok.signed /\ r.at < tok.exp

\* C18: GET /vkm/:id, POST /vkm, PUT /vkm/:id and DELETE /vkm/:id reach
\* VkmService only with a signed, unexpired JWT (the Bearer header first, else
\* the cookie), GET /vkm is public, and no unauthenticated request changes
\* the VKM collection.
C18_VkmGuarded ==
  /\ [](http.op = "vkm" =>
          /\ (http.route # "findAll" /\ http.reached) => Authenticated(http)
          /\ http.route = "findAll" => http.reached)
  /\ [][db'.vkm # db.vkm => (http'.op = "vkm" /\ Authenticated(http'))]_vars

C18_Witness ==
  /\ http.op = "vkm"
  /\ http.route = "delete"
  /\ http.reached
  /\ http.bearer = Null
  /\ http.cookie # Null
  /\ db.vkm # {}

\* C19: after any POST /users and PUT /users/:id requests every stored
\* password is a bcrypt hash, and validateUser(email, p) succeeds for the
\* password p last supplied for the user through create or update.
C19_PasswordsHashed ==
  /\ \A u \in db.users : u.password.bcrypt
  /\ (/\ http.op \in {"postUser", "putUser"}
      /\ http.status \in {200, 201}
      /\ "password" \in DOMAIN http.data
      /\ \E u \in db.users : u._id = http.id)
       => validateUser(db.users, Email(http.id), http.data.password.of) # Null

\* C20: once logout() has been called, and until the caller next invokes
\* login() or setToken(), isAuthenticated() is false and getToken() returns
\* null, whichever responses that were already in flight arrive meanwhile.
C20_LogoutHolds ==
  loggedOut => /\ ~isAuthenticated(Heap)
               /\ getToken(Heap, now, FALSE).ret = Null

SameCredential(decoded, tok) ==
  LET d == decodeToken(tok)
  IN /\ d # Null
     /\ decoded.sub = d.sub
     /\ decoded.username = d.username
     /\ decoded.is_admin = d.is_admin
     /\ decoded.exp = d.exp

\* C21: in every reachable AuthManager state token is non-null only if it
\* can be decoded, and when token and decodedToken are both non-null,
\* decodedToken is the decoded payload of token (same sub, username, is_admin
\* and exp), whatever the order of the initializeSession response and
\* login()/setToken().
C21_TokenMatchesDecoded ==
  /\ token # Null => decodeToken(token) # Null
  /\ (token # Null /\ decodedToken # Null) => SameCredential(decodedToken, token)

\* req.user of the request the guard accepted last.
ReqUser == Profile(jwtFromRequest(http))

GuardAccepted ==
  \/ http.op = "me" /\ http.status = 200
  \/ http.op = "vkm" /\ UseGuards(http.route) /\ http.reached

\* C22: every request the JWT guard accepts (GET /auth/me, the guarded vkm
\* routes) is made for a user that exists in the users collection at that
\* time, and req.user.is_admin equals that user's current is_admin, also after
\* DELETE /users/:id or an update of is_admin.
C22_GuardKnowsUser ==
  GuardAccepted =>
    \E u \in db.users : u._id = ReqUser.userId /\ u.is_admin = ReqUser.is_admin

\* The listeners ls were each called once, in order, with state st.
Notified(ls, rnd, st) ==
  /\ Len(rnd) = Len(ls)
  /\ \A i \in 1..Len(ls) : rnd[i].l = ls[i] /\ rnd[i].state = st

C24_SyncOne ==
  http.op = "sync" =>
    /\ http.seg = "all" => http.handler = "all"
    /\ (http.handler = ":userId" /\ ~\E u \in db.users : u._id = http.seg) =>
         /\ http.result = [kind |-> "throw", error |-> "NotFoundException: User not found"]
         /\ http.posts = <<>>
    /\ (http.handler = ":userId" /\ \E u \in db.users : u._id = http.seg) =>
         /\ Len(http.posts) = 1
         /\ DOMAIN http.posts[1] = {"user", "vkm"}
         /\ http.posts[1].user._id = http.seg
         /\ http.posts[1].vkm = db.vkm
         /\ http.answer.kind = "response" =>
              http.result = [kind |-> "return",
                             value |-> [status |-> http.answer.status,
                                        data |-> http.answer.data]]

\* The documents that differ from u at most in email, password and is_admin.
Vary(u) ==
  {[u EXCEPT !.email = e, !.password = pw, !.is_admin = adm] :
     e \in {Email(x) : x \in Users}, pw \in {Hash("p1"), Plain("p2")},
     adm \in BOOLEAN}

\* The collections that differ from users only in those fields.
Alternatives(users) ==
  {{f[u] : u \in users} :
     f \in {g \in [users -> UNION {Vary(u) : u \in users}] :
              \A u \in users : g[u] \in Vary(u)}}

\* What the handler of the last sync request posts over the database d.
SyncPosts(d) ==
  IF http.handler = "all"
  THEN sendAllUsersAndVkmToN8n(d, http.answer).posts
  ELSE sendUserAndVkmToN8n(d, http.seg, http.answer).posts

\* C25: the payload both sync operations send to the n8n webhook shows of the
\* users only _id and group: databases that differ only in users' email,
\* password, is_admin (and the other fields) give identical payloads.
C25_PayloadHidesUsers ==
  http.op = "sync" =>
    /\ \A alt \in Alternatives(db.users) :
         SyncPosts([db EXCEPT !.users = alt]) = http.posts
    /\ \A i \in 1..Len(http.posts) :
         LET sent == IF http.handler = "all" THEN http.posts[i].users
                     ELSE {http.posts[i].user}
         IN \A u \in sent : DOMAIN u \subseteq {"_id", "group"}

C25_Witness ==
  /\ http.op = "sync"
  /\ http.handler = "all"
  /\ Len(http.posts) = 1
  /\ Cardinality(db.users) = 2
  /\ \E u \in db.users : u.is_admin /\ ~u.password.bcrypt /\ "group" \in DOMAIN u
  /\ \E u \in http.posts[1].users : "group" \in DOMAIN u

\* C26: addItem and editItem throw 'Validation failed: ...' without issuing
\* an API request and without changing items when the factory-built payload
\* has validation errors; editItem for an id not in items returns without a
\* request or state change; a successful addItem appends the created item,
\* and a successful editItem replaces exactly the item with that _id.
C26_ValidateBeforeSend ==
  [][/\ last'.op = "addItem" =>
          LET payload == createNew(last'.item.name, last'.item.description, now)
          IN ~isValid(payload) => last'.threw /\ UNCHANGED useItems
     /\ last'.op = "editItem" =>
          LET existing == find(useItems.items, last'.id)
          IN /\ existing = Undefined => ~last'.threw /\ UNCHANGED useItems
             /\ (existing # Undefined /\
                 ~isValid(createFromExisting(existing,
                            [NoUpdates EXCEPT !.name = last'.item.name,
                                              !.shortdescription = last'.item.description])))
                  => last'.threw /\ UNCHANGED useItems
     /\ (last'.op = "createSettled" /\ last'.ok) =>
          useItems'.items = Append(useItems.items, last'.item)
     /\ (last'.op = "updateSettled" /\ last'.ok) =>
          /\ Len(useItems'.items) = Len(useItems.items)
          /\ \A i \in 1..Len(useItems.items) :
               useItems'.items[i] = IF useItems.items[i]._id = last'.id
                                    THEN last'.item ELSE useItems.items[i]]_vars

C26_Witness ==
  /\ last.op = "editItem"
  /\ last.threw
  /\ Len(useItems.items) = 3
  /\ useItems.reqs = {}

\* C27: in every reachable AuthManager state at most one refresh timer is
\* pending, and one is pending only while decodedToken is non-null.
C27_OneTimerWhileDecoded ==
  /\ Cardinality(timers) <= 1
  /\ timers # {} => decodedToken # Null
====
